---- MODULE Spec2Model ----
(***************************************************************************)
(* Sensor entities of pun_sensor (custom_components/pun_sensor/sensor.py). *)
(*                                                                         *)
(* One PUNSensorEntity (its band `fascia` is fixed at construction and     *)
(* ranges over every Fascia), the FasciaPUNSensorEntity and the            *)
(* PrezzoFasciaPUNSensorEntity observe one coordinator.  The coordinator   *)
(* is external to sensor.py: only the fields the entities read are kept.   *)
(*                                                                         *)
(* Optional values (Python None) are sequences: <<>> is None, <<x>> is x.  *)
(* Prices are integers counting 1e-7 EUR/kWh.                              *)
(***************************************************************************)
EXTENDS Integers, Sequences, FiniteSets, TLC

\* ------------------------------------------------------------------ bounds
\* Largest total number of raw samples the coordinator holds over all bands.
MaxSamples == 3
\* The coordinator's computed values come from generations 0..MaxSeed.
MaxSeed == 1
\* Transition timestamps of the next band are drawn from 1..MaxTime.
MaxTime == 1

\* ------------------------------------------------------- interfaces.Fascia
MONO == "MONO"
F1 == "F1"
F2 == "F2"
F3 == "F3"
F23 == "F23"

Fascia == {MONO, F1, F2, F3, F23}

None == <<>>

Some(x) == <<x>>

\* Fascia.<member>.value
FasciaValue(f) ==
    CASE f = MONO -> "MONO"
      [] f = F1 -> "F1"
      [] f = F2 -> "F2"
      [] f = F3 -> "F3"
      [] f = F23 -> "F23"

FasciaIndex(f) ==
    CASE f = MONO -> 0
      [] f = F1 -> 1
      [] f = F2 -> 2
      [] f = F3 -> 3
      [] f = F23 -> 4

\* The entities of async_setup_entry.
PUN == "pun"
FASCIA == "fascia"
PREZZO == "prezzo"

Entities == {PUN, FASCIA, PREZZO}

VARIABLES
    pun,                      \* coordinator.pun_data.pun: band -> number of samples
    value,                    \* coordinator.pun_values.value: band -> price
    fascia_corrente,          \* coordinator.fascia_corrente: None or Some(band)
    fascia_successiva,        \* coordinator.fascia_successiva: None or Some(band)
    prossimo_cambio_fascia,   \* coordinator.prossimo_cambio_fascia: None or Some(t)
    termine_prossima_fascia,  \* coordinator.termine_prossima_fascia: None or Some(t)
    fascia,                   \* PUNSensorEntity.fascia
    pun_sensor,               \* PUNSensorEntity: _available, _native_value
    prezzo_sensor,            \* PrezzoFasciaPUNSensorEntity: _available, _native_value, _friendly_name
    has_suggested_display_precision,  \* CommonSettings.has_suggested_display_precision
    listening,                \* the entities added to hass, which listen to the coordinator
    last_extra_data,          \* entity -> None or Some(stored dict), as async_get_last_extra_data returns
    written                   \* entity -> states passed to async_write_ha_state by its last update

coordinator == <<pun, value, fascia_corrente, fascia_successiva,
                 prossimo_cambio_fascia, termine_prossima_fascia>>

vars == <<pun, value, fascia_corrente, fascia_successiva, prossimo_cambio_fascia,
          termine_prossima_fascia, fascia, pun_sensor, prezzo_sensor,
          has_suggested_display_precision, listening,
          last_extra_data, written>>

\* ---------------------------------------------------------------- helpers
\* Python round(num, 6) on a price counted in 1e-7: nearest multiple of 10,
\* ties to the even neighbour.
Round6(num) ==
    LET q == num \div 10
        r == num % 10
    IN  IF r < 5 THEN 10 * q
        ELSE IF r > 5 THEN 10 * (q + 1)
        ELSE IF q % 2 = 0 THEN 10 * q ELSE 10 * (q + 1)

\* fmt_float: the number itself where Home Assistant rounds for display,
\* the number rounded to 6 decimals on older versions.
fmt_float(num) ==
    IF has_suggested_display_precision THEN num ELSE Round6(num)

\* Python `a and b` on integers: a when a is falsy (0), otherwise b.
PyAnd(a, b) == IF a = 0 THEN a ELSE b

\* Truth value of an Optional[Fascia]: None is falsy, every Enum member is truthy.
PyTruthy(opt) == opt # None

\* ------------------------------------------------------ PUNSensorEntity
\* __init__: the fields the handlers read and write.
PUNSensorEntity == [_available |-> FALSE, _native_value |-> 0]

\* name
PUN_name(f) ==
    IF f = MONO THEN "PUN mono-orario" ELSE "PUN fascia " \o FasciaValue(f)

\* available, native_value and name as Home Assistant reads them on a write.
PUN_state(self, f) ==
    [available |-> self._available,
     native_value |-> fmt_float(self._native_value),
     name |-> PUN_name(f)]

\* PUN_has_data looking at the band's own samples for F23 as well.
PUN_has_data_OwnSamples(f, p) == p[f] > 0

\* The two conditions of _handle_coordinator_update under which data is present.
PUN_has_data(f, p) ==
    IF f # F23
    THEN p[f] > 0
    ELSE PyAnd(p[F2], p[F3]) > 0

\* PUN_update_fields leaving _available alone when no data is found.
PUN_update_fields_KeepAvailable(self, f, p, v) ==
    IF PUN_has_data(f, p)
    THEN [_available |-> TRUE, _native_value |-> v[f]]
    ELSE self

\* PUN_update_fields not taking the new value.
PUN_update_fields_StaleValue(self, f, p, v) ==
    IF PUN_has_data(f, p)
    THEN [self EXCEPT !._available = TRUE]
    ELSE [self EXCEPT !._available = FALSE]

\* PUN_update_fields resetting the value when no data is found.
PUN_update_fields_ResetValue(self, f, p, v) ==
    IF PUN_has_data(f, p)
    THEN [_available |-> TRUE, _native_value |-> v[f]]
    ELSE [_available |-> FALSE, _native_value |-> 0]

\* The fields after _handle_coordinator_update's branches.
PUN_update_fields(self, f, p, v) ==
    IF PUN_has_data(f, p)
    THEN [_available |-> TRUE, _native_value |-> v[f]]
    ELSE [self EXCEPT !._available = FALSE]

\* PUN_handle_coordinator_update writing the state before setting the fields.
PUN_handle_coordinator_update_WriteFirst(self, f, p, v) ==
    [self |-> PUN_update_fields(self, f, p, v), writes |-> <<PUN_state(self, f)>>]

\* _handle_coordinator_update: the new fields, then async_write_ha_state.
PUN_handle_coordinator_update(self, f, p, v) ==
    LET new == PUN_update_fields(self, f, p, v)
    IN  [self |-> new, writes |-> <<PUN_state(new, f)>>]

PUN_extra_restore_state_data(self) ==
    [native_value |-> IF self._available THEN Some(self._native_value) ELSE None]

\* PUN_async_added_to_hass testing the stored value for truth (`if old_native_value:`).
PUN_async_added_to_hass_Truthy(self, old_data) ==
    IF old_data # None
    THEN LET old_native_value == old_data[1].native_value
         IN  IF old_native_value # None /\ old_native_value[1] # 0
             THEN [_available |-> TRUE, _native_value |-> old_native_value[1]]
             ELSE self
    ELSE self

PUN_async_added_to_hass(self, old_data) ==
    IF old_data # None
    THEN LET old_native_value == old_data[1].native_value
         IN  IF old_native_value # None
             THEN [_available |-> TRUE, _native_value |-> old_native_value[1]]
             ELSE self
    ELSE self

\* ------------------------------------------------ FasciaPUNSensorEntity
\* Fascia_available not looking at the coordinator.
Fascia_available_Always(fc) == TRUE

Fascia_available(fc) == fc # None

Fascia_options == <<FasciaValue(F1), FasciaValue(F2), FasciaValue(F3)>>

Fascia_native_value(fc) ==
    IF ~PyTruthy(fc) THEN None ELSE Some(FasciaValue(fc[1]))

Fascia_extra_state_attributes(fs, inizio, termine) ==
    [fascia_successiva |-> IF PyTruthy(fs) THEN Some(FasciaValue(fs[1])) ELSE None,
     inizio_fascia_successiva |-> inizio,
     termine_fascia_successiva |-> termine]

Fascia_state(fc, fs, inizio, termine) ==
    [available |-> Fascia_available(fc),
     native_value |-> Fascia_native_value(fc),
     attributes |-> Fascia_extra_state_attributes(fs, inizio, termine)]

\* _handle_coordinator_update: async_write_ha_state only.
Fascia_handle_coordinator_update(fc, fs, inizio, termine) ==
    [writes |-> <<Fascia_state(fc, fs, inizio, termine)>>]

\* ------------------------------------------ PrezzoFasciaPUNSensorEntity
PrezzoFasciaPUNSensorEntity ==
    [_available |-> FALSE, _native_value |-> 0,
     _friendly_name |-> "Prezzo fascia corrente"]

Prezzo_state(self) ==
    [available |-> self._available,
     native_value |-> fmt_float(self._native_value),
     name |-> self._friendly_name]

\* Prezzo_update_fields keeping the old value when the band has no samples.
Prezzo_update_fields_KeepValue(self, fc, p, v) ==
    IF fc # None
    THEN [_available |-> p[fc[1]] > 0,
          _native_value |-> IF p[fc[1]] > 0 THEN v[fc[1]] ELSE self._native_value,
          _friendly_name |-> "Prezzo fascia corrente (" \o FasciaValue(fc[1]) \o ")"]
    ELSE [_available |-> FALSE,
          _native_value |-> 0,
          _friendly_name |-> "Prezzo fascia corrente"]

\* Prezzo_update_fields available whenever a current band is known.
Prezzo_update_fields_BandOnly(self, fc, p, v) ==
    IF fc # None
    THEN [_available |-> TRUE,
          _native_value |-> v[fc[1]],
          _friendly_name |-> "Prezzo fascia corrente (" \o FasciaValue(fc[1]) \o ")"]
    ELSE [_available |-> FALSE,
          _native_value |-> 0,
          _friendly_name |-> "Prezzo fascia corrente"]

Prezzo_update_fields(self, fc, p, v) ==
    IF fc # None
    THEN [_available |-> p[fc[1]] > 0,
          _native_value |-> v[fc[1]],
          _friendly_name |-> "Prezzo fascia corrente (" \o FasciaValue(fc[1]) \o ")"]
    ELSE [_available |-> FALSE,
          _native_value |-> 0,
          _friendly_name |-> "Prezzo fascia corrente"]

Prezzo_handle_coordinator_update(self, fc, p, v) ==
    LET new == Prezzo_update_fields(self, fc, p, v)
    IN  [self |-> new, writes |-> <<Prezzo_state(new)>>]

Prezzo_extra_restore_state_data(self) ==
    [native_value |-> IF self._available THEN Some(self._native_value) ELSE None,
     friendly_name |-> IF self._available THEN Some(self._friendly_name) ELSE None]

Prezzo_async_added_to_hass(self, old_data) ==
    IF old_data # None
    THEN LET old_native_value == old_data[1].native_value
             old_friendly_name == old_data[1].friendly_name
             s1 == IF old_native_value # None
                   THEN [self EXCEPT !._available = TRUE,
                                     !._native_value = old_native_value[1]]
                   ELSE self
         IN  IF old_friendly_name # None
             THEN [s1 EXCEPT !._friendly_name = old_friendly_name[1]]
             ELSE s1
    ELSE self

\* ------------------------------------------------------- the coordinator
\* The coordinator before its first refresh: no samples, no band.
NoSamples == [b \in Fascia |-> 0]

NoValues == [b \in Fascia |-> 0]

RECURSIVE Total(_, _)
Total(p, bands) ==
    IF bands = {} THEN 0
    ELSE LET b == CHOOSE x \in bands : TRUE
         IN  p[b] + Total(p, bands \ {b})

\* The sample counts a refresh may leave in pun_data.pun: one more sample in
\* some band, or none at all (a new month).
NextSampleCounts(p) ==
    {NoSamples} \cup
    {[p EXCEPT ![b] = @ + 1] : b \in {x \in Fascia : Total(p, Fascia) < MaxSamples}}

\* The values of generation `seed`: distinct per band and per generation.
ValuesOf(seed) == [b \in Fascia |-> 15 * (5 * seed + FasciaIndex(b))]

OptFascia == {None} \cup {Some(f) : f \in Fascia}

OptTime == {None} \cup {Some(t) : t \in 1..MaxTime}

\* DataUpdateCoordinator.async_update_listeners: every listening entity runs
\* its _handle_coordinator_update on the coordinator's new fields.
AsyncUpdateListeners ==
    LET pu == PUN_handle_coordinator_update(pun_sensor, fascia, pun', value')
        pr == Prezzo_handle_coordinator_update(prezzo_sensor, fascia_corrente', pun', value')
        fa == Fascia_handle_coordinator_update(fascia_corrente', fascia_successiva',
                  prossimo_cambio_fascia', termine_prossima_fascia')
    IN  /\ pun_sensor' = IF PUN \in listening THEN pu.self ELSE pun_sensor
        /\ prezzo_sensor' = IF PREZZO \in listening THEN pr.self ELSE prezzo_sensor
        /\ written' = [e \in Entities |->
                         IF e \notin listening THEN written[e]
                         ELSE CASE e = PUN -> pu.writes
                                [] e = PREZZO -> pr.writes
                                [] e = FASCIA -> fa.writes]
        /\ UNCHANGED <<fascia, has_suggested_display_precision, listening, last_extra_data>>

\* The coordinator refreshes the prices and notifies its listeners.  Prices
\* are fetched once the entities are added: async_setup_entry adds them
\* without a first update, to let Home Assistant start.
UpdatePun(counts, seed) ==
    /\ listening = Entities
    /\ pun' = counts
    /\ value' = ValuesOf(seed)
    /\ UNCHANGED <<fascia_corrente, fascia_successiva, prossimo_cambio_fascia,
                   termine_prossima_fascia>>
    /\ AsyncUpdateListeners

\* The coordinator recomputes the current and next band and notifies its listeners.
UpdateFascia(fc, fs, inizio) ==
    /\ fascia_corrente' = fc
    /\ fascia_successiva' = fs
    /\ prossimo_cambio_fascia' = inizio
    /\ termine_prossima_fascia' = IF inizio = None THEN None ELSE Some(inizio[1] + 1)
    /\ UNCHANGED <<pun, value>>
    /\ AsyncUpdateListeners

\* ------------------------------------------------ entity lifecycle
\* PUNSensorEntity.async_added_to_hass: the entity starts to listen and takes
\* the data stored for it, which Home Assistant hands over once.
AddedToHassPUN ==
    /\ PUN \notin listening
    /\ pun_sensor' = PUN_async_added_to_hass(pun_sensor, last_extra_data[PUN])
    /\ listening' = listening \cup {PUN}
    /\ last_extra_data' = [last_extra_data EXCEPT ![PUN] = None]
    /\ UNCHANGED <<coordinator, fascia, prezzo_sensor, has_suggested_display_precision, written>>

\* PrezzoFasciaPUNSensorEntity.async_added_to_hass.
AddedToHassPrezzo ==
    /\ PREZZO \notin listening
    /\ prezzo_sensor' = Prezzo_async_added_to_hass(prezzo_sensor, last_extra_data[PREZZO])
    /\ listening' = listening \cup {PREZZO}
    /\ last_extra_data' = [last_extra_data EXCEPT ![PREZZO] = None]
    /\ UNCHANGED <<coordinator, fascia, pun_sensor, has_suggested_display_precision, written>>

\* FasciaPUNSensorEntity is added: it has no async_added_to_hass of its own
\* and only starts to listen.
AddedToHassFascia ==
    /\ FASCIA \notin listening
    /\ listening' = listening \cup {FASCIA}
    /\ UNCHANGED <<coordinator, fascia, pun_sensor, prezzo_sensor,
                   has_suggested_display_precision, last_extra_data, written>>

\* Home Assistant, once set up, stops and starts again: the restore data of
\* the entities is stored, and async_setup_entry reads the version of Home
\* Assistant and constructs new entities over a new coordinator.
Restart ==
    /\ listening = Entities
    /\ last_extra_data' =
         [e \in Entities |->
            CASE e = PUN -> Some(PUN_extra_restore_state_data(pun_sensor))
              [] e = PREZZO -> Some(Prezzo_extra_restore_state_data(prezzo_sensor))
              [] e = FASCIA -> None]
    /\ pun' = NoSamples
    /\ value' = NoValues
    /\ fascia_corrente' = None
    /\ fascia_successiva' = None
    /\ prossimo_cambio_fascia' = None
    /\ termine_prossima_fascia' = None
    /\ pun_sensor' = PUNSensorEntity
    /\ prezzo_sensor' = PrezzoFasciaPUNSensorEntity
    /\ has_suggested_display_precision' \in BOOLEAN
    /\ listening' = {}
    /\ written' = [e \in Entities |-> <<>>]
    /\ UNCHANGED fascia

Init ==
    /\ pun = NoSamples
    /\ value = NoValues
    /\ fascia_corrente = None
    /\ fascia_successiva = None
    /\ prossimo_cambio_fascia = None
    /\ termine_prossima_fascia = None
    /\ fascia \in Fascia
    /\ pun_sensor = PUNSensorEntity
    /\ prezzo_sensor = PrezzoFasciaPUNSensorEntity
    /\ has_suggested_display_precision \in BOOLEAN
    /\ listening = {}
    /\ last_extra_data = [e \in Entities |-> None]
    /\ written = [e \in Entities |-> <<>>]

\* Prices and current band; the next band is left unknown.
Next ==
    \/ \E counts \in NextSampleCounts(pun), seed \in 0..MaxSeed : UpdatePun(counts, seed)
    \/ \E fc \in OptFascia : UpdateFascia(fc, None, None)
    \/ AddedToHassPUN
    \/ AddedToHassPrezzo
    \/ AddedToHassFascia
    \/ Restart

Spec == Init /\ [][Next]_vars

\* The band schedule in full; the prices are left as constructed.
NextFascia ==
    \/ \E fc \in OptFascia, fs \in OptFascia, inizio \in OptTime : UpdateFascia(fc, fs, inizio)
    \/ AddedToHassPUN
    \/ AddedToHassPrezzo
    \/ AddedToHassFascia
    \/ Restart

SpecFascia == Init /\ [][NextFascia]_vars

\* ================================================================ claims
\* The entity has handled a coordinator update since it was added.
Handled(e) == written[e] # <<>>

\* The coordinator holds samples for what the PUN sensor of band f shows.
UpstreamPUN(f) ==
    IF f = F23 THEN pun[F2] > 0 /\ pun[F3] > 0 ELSE pun[f] > 0

\* The coordinator has a current band and samples for it.
UpstreamPrezzo ==
    \E f \in Fascia : fascia_corrente = Some(f) /\ pun[f] > 0

BandName(f) ==
    CASE f = MONO -> "MONO" [] f = F1 -> "F1" [] f = F2 -> "F2"
      [] f = F3 -> "F3" [] f = F23 -> "F23"

PrezzoName(f) ==
    CASE f = MONO -> "Prezzo fascia corrente (MONO)"
      [] f = F1 -> "Prezzo fascia corrente (F1)"
      [] f = F2 -> "Prezzo fascia corrente (F2)"
      [] f = F3 -> "Prezzo fascia corrente (F3)"
      [] f = F23 -> "Prezzo fascia corrente (F23)"

\* A step in which the coordinator notified entity e.
UpdateStep(e) == e \in listening /\ listening' = listening

\* C1: right after PUNSensorEntity._handle_coordinator_update the entity of
\* band b in {MONO, F1, F2, F3} is available iff pun[b] is non-empty, and the
\* entity of band F23 is available iff pun[F2] and pun[F3] are both non-empty.
C1_Availability ==
    Handled(PUN) =>
        (pun_sensor._available <=>
            IF fascia = F23 THEN pun[F2] > 0 /\ pun[F3] > 0 ELSE pun[fascia] > 0)

\* The F23 entity is available with no samples of its own.
C1_Witness ==
    /\ Handled(PUN)
    /\ fascia = F23
    /\ pun[F2] > 0 /\ pun[F3] > 0 /\ pun[F23] = 0
    /\ pun_sensor._available

\* C2 as stated: in every reachable state, a value sensor whose band has no
\* upstream data is unavailable, also between being added and the first update.
C2_AbsentMeansUnavailable ==
    /\ ~UpstreamPUN(fascia) => ~pun_sensor._available
    /\ ~UpstreamPrezzo => ~prezzo_sensor._available

\* C2 amended: a value sensor whose band has no upstream data is unavailable
\* once it has handled a coordinator update; it is available without upstream
\* data only after being added with a restored value and before its first update.
C2_AbsentMeansUnavailableOnceUpdated ==
    /\ (~UpstreamPUN(fascia) /\ pun_sensor._available) => (PUN \in listening /\ ~Handled(PUN))
    /\ (~UpstreamPrezzo /\ prezzo_sensor._available) => (PREZZO \in listening /\ ~Handled(PREZZO))

\* Both value sensors were available, lost their upstream data and went unavailable.
C2_Witness ==
    /\ Handled(PUN) /\ Handled(PREZZO)
    /\ ~UpstreamPUN(fascia) /\ ~UpstreamPrezzo
    /\ ~pun_sensor._available /\ ~prezzo_sensor._available
    /\ pun_sensor._native_value # 0
    /\ fascia_corrente # None

\* C3: right after a PUNSensorEntity of band b handled an update and is
\* available, its stored value is the coordinator's value for band b.
C3_PassiveValue ==
    (Handled(PUN) /\ pun_sensor._available) =>
        /\ pun_sensor._native_value = value[fascia]
        /\ written[PUN][1].native_value = fmt_float(value[fascia])

\* An available entity shows a value that differs from every other band's.
C3_Witness ==
    /\ Handled(PUN)
    /\ pun_sensor._available
    /\ pun_sensor._native_value = value[fascia]
    /\ \A b \in Fascia \ {fascia} : value[b] # pun_sensor._native_value
    /\ value[fascia] >= 75

\* C4: right after PrezzoFasciaPUNSensorEntity._handle_coordinator_update, with
\* current band f the value is value[f], the entity is available iff pun[f] is
\* non-empty and its name is "Prezzo fascia corrente (<f>)"; with no current
\* band it is unavailable with value 0 and name "Prezzo fascia corrente".
C4_CurrentBandPrice ==
    Handled(PREZZO) =>
        IF fascia_corrente # None
        THEN /\ prezzo_sensor._native_value = value[fascia_corrente[1]]
             /\ prezzo_sensor._available <=> pun[fascia_corrente[1]] > 0
             /\ prezzo_sensor._friendly_name = PrezzoName(fascia_corrente[1])
        ELSE /\ ~prezzo_sensor._available
             /\ prezzo_sensor._native_value = 0
             /\ prezzo_sensor._friendly_name = "Prezzo fascia corrente"

\* The current band has no samples: unavailable, yet value and name follow the band.
C4_Witness ==
    /\ Handled(PREZZO)
    /\ fascia_corrente = Some(F2)
    /\ pun[F2] = 0
    /\ ~prezzo_sensor._available
    /\ prezzo_sensor._native_value = value[F2]
    /\ value[F2] # 0
    /\ prezzo_sensor._friendly_name = "Prezzo fascia corrente (F2)"

\* A new entity added with the restore data of state s / with no stored data.
PUN_restored(s) ==
    PUN_async_added_to_hass(PUNSensorEntity, Some(PUN_extra_restore_state_data(s)))

Prezzo_restored(s) ==
    Prezzo_async_added_to_hass(PrezzoFasciaPUNSensorEntity,
                               Some(Prezzo_extra_restore_state_data(s)))

\* C5: a new entity added with the restore data of a reachable state s has
\* the availability of s and, if s was available, its value (0 included) and
\* name; if s was unavailable or nothing is stored it stays as constructed.
C5_RestoreRoundTrip ==
    /\ PUN_restored(pun_sensor)._available = pun_sensor._available
    /\ pun_sensor._available =>
           PUN_restored(pun_sensor)._native_value = pun_sensor._native_value
    /\ ~pun_sensor._available => PUN_restored(pun_sensor) = PUNSensorEntity
    /\ PUN_async_added_to_hass(PUNSensorEntity, None) = PUNSensorEntity
    /\ Prezzo_restored(prezzo_sensor)._available = prezzo_sensor._available
    /\ prezzo_sensor._available =>
           /\ Prezzo_restored(prezzo_sensor)._native_value = prezzo_sensor._native_value
           /\ Prezzo_restored(prezzo_sensor)._friendly_name = prezzo_sensor._friendly_name
    /\ ~prezzo_sensor._available =>
           Prezzo_restored(prezzo_sensor) = PrezzoFasciaPUNSensorEntity
    /\ Prezzo_async_added_to_hass(PrezzoFasciaPUNSensorEntity, None) =
           PrezzoFasciaPUNSensorEntity
    /\ ~Handled(PUN) => (pun_sensor._available \/ pun_sensor = PUNSensorEntity)
    /\ ~Handled(PREZZO) =>
           (prezzo_sensor._available \/ prezzo_sensor = PrezzoFasciaPUNSensorEntity)

\* Both value sensors came back available from stored data, the PUN sensor with value 0.
C5_Witness ==
    /\ listening = Entities
    /\ ~Handled(PUN) /\ ~Handled(PREZZO)
    /\ pun_sensor._available
    /\ pun_sensor._native_value = 0
    /\ prezzo_sensor._available
    /\ prezzo_sensor._friendly_name = "Prezzo fascia corrente (F3)"

\* C6: the current-band sensor is available iff the coordinator has a current
\* band, its state is that band's name (None without one), its attributes are
\* the next band's name (None without one) and the two timestamps unchanged;
\* availability and a None state never disagree; what it writes is that view.
C6_FasciaView ==
    LET st == Fascia_state(fascia_corrente, fascia_successiva,
                           prossimo_cambio_fascia, termine_prossima_fascia)
    IN  /\ st.available <=> fascia_corrente # None
        /\ st.native_value =
               IF fascia_corrente = None THEN None
               ELSE Some(BandName(fascia_corrente[1]))
        /\ st.attributes.fascia_successiva =
               IF fascia_successiva = None THEN None
               ELSE Some(BandName(fascia_successiva[1]))
        /\ st.attributes.inizio_fascia_successiva = prossimo_cambio_fascia
        /\ st.attributes.termine_fascia_successiva = termine_prossima_fascia
        /\ st.available <=> st.native_value # None
        /\ Handled(FASCIA) => written[FASCIA] = <<st>>

\* A current band with no next band, and the transition timestamps set.
C6_Witness ==
    /\ Handled(FASCIA)
    /\ fascia_corrente = Some(F2)
    /\ fascia_successiva = None
    /\ prossimo_cambio_fascia # None
    /\ written[FASCIA][1].native_value = Some("F2")
    /\ written[FASCIA][1].attributes.fascia_successiva = None

\* C7: every _handle_coordinator_update of the three entities calls
\* async_write_ha_state exactly once, on every branch, and what the value
\* sensors write is the availability, value and name set by that update.
C7_EveryUpdatePublished ==
    [][/\ \A e \in Entities : UpdateStep(e) => Len(written'[e]) = 1
       /\ UpdateStep(PUN) =>
            /\ written'[PUN][1] = PUN_state(pun_sensor', fascia')
            /\ written'[PUN][1].available = UpstreamPUN(fascia)'
       /\ UpdateStep(PREZZO) =>
            /\ written'[PREZZO][1] = Prezzo_state(prezzo_sensor')
            /\ written'[PREZZO][1].available = UpstreamPrezzo'
       /\ UpdateStep(FASCIA) =>
            written'[FASCIA][1] =
                Fascia_state(fascia_corrente', fascia_successiva',
                             prossimo_cambio_fascia', termine_prossima_fascia')]_vars

\* The branches without data and without a current band were written.
C7_Witness ==
    /\ \A e \in Entities : Len(written[e]) = 1
    /\ fascia_corrente = None
    /\ ~written[PREZZO][1].available
    /\ ~UpstreamPUN(fascia)
    /\ ~written[PUN][1].available
    /\ written[PUN][1].native_value # 0

\* C8: an update that finds the samples empty sets the PUN sensor unavailable
\* and leaves its stored value as it was; the band never changes; while
\* unavailable the restore data carries native_value None.
C8_NoDataFrame ==
    /\ [][(UpdateStep(PUN) /\ ~UpstreamPUN(fascia)') =>
             /\ ~pun_sensor'._available
             /\ pun_sensor'._native_value = pun_sensor._native_value]_vars
    /\ [][fascia' = fascia]_vars
    /\ [](~pun_sensor._available =>
             PUN_extra_restore_state_data(pun_sensor).native_value = None)

\* An unavailable sensor retains a value that is not the coordinator's.
C8_Witness ==
    /\ Handled(PUN)
    /\ ~UpstreamPUN(fascia)
    /\ ~pun_sensor._available
    /\ pun_sensor._native_value # 0
    /\ pun_sensor._native_value # value[fascia]
    /\ PUN_extra_restore_state_data(pun_sensor).native_value = None

\* C9: after a push handled by all entities with current band f in
\* {F1, F2, F3}, the price sensor and the PUN sensor of band f have the same
\* availability and, when available, the same value.
C9_PrezzoAgreesWithBand ==
    (/\ Handled(PUN) /\ Handled(PREZZO)
     /\ fascia \in {F1, F2, F3}
     /\ fascia_corrente = Some(fascia)) =>
        /\ prezzo_sensor._available = pun_sensor._available
        /\ pun_sensor._available =>
               prezzo_sensor._native_value = pun_sensor._native_value

\* Both unavailable, with different stored values.
C9_Witness ==
    /\ Handled(PUN) /\ Handled(PREZZO)
    /\ fascia = F1
    /\ fascia_corrente = Some(F1)
    /\ ~pun_sensor._available /\ ~prezzo_sensor._available
    /\ prezzo_sensor._native_value # pun_sensor._native_value

\* C10: whenever the current-band sensor is available, its state is one of
\* the options it declares (the names of F1, F2 and F3), for every member of
\* Fascia the coordinator may expose as current band.
C10_StateWithinOptions ==
    (Handled(FASCIA) /\ written[FASCIA][1].available) =>
        \E i \in 1..Len(Fascia_options) :
            written[FASCIA][1].native_value = Some(Fascia_options[i])

====
